---- MODULE Spec2Model ----
(***************************************************************************)
(* Model of the RAG-project indexing pipeline:                             *)
(*   - LegalDocumentProcessor.process_all_pdfs (sequential reindex),       *)
(*   - AsyncReindexer (cooperative thread pool),                           *)
(*   - multiprocess_reindex (OS process pool),                             *)
(*   - VectorDatabase (ChromaDB) and SimpleVectorDatabase (TF-IDF),        *)
(*   - the chunk caches of GeminiChunker and ChatGPTChunker.               *)
(*                                                                         *)
(* Spec      : the reindex pipeline and the two index backends.            *)
(* SpecCache : the chunkers and their cache files.                         *)
(***************************************************************************)
EXTENDS Integers, Sequences, FiniteSets, TLC

\* ---------------------------------------------------------------- bounds
NumItems == 2        \* PDF files in data/pdfs
MaxRuns == 2         \* reindex runs started in one behaviour
MaxVer == 2          \* versions of one PDF's content
NumChunks == 1       \* chunks extracted from a readable PDF
NumPositions == 1    \* legal positions extracted from a readable PDF
CpuCount == 2        \* multiprocessing.cpu_count()

Items == 1..NumItems
ItemSeq == [i \in 1..NumItems |-> i]

\* AsyncReindexer(max_workers=2)
max_workers == 2

VARIABLES
    \* ---- files on disk
    pdfKind,     \* pdfKind[f]: "good" | "unreadable" | "raises": what extraction does
    pdfVer,      \* pdfVer[f]: version of the PDF's content (its mtime order too)
    json,        \* json[f]: the JSON output of f: [state, ver, mt]
    chroma,      \* the persisted ChromaDB collection: record id -> content version, 0 absent
    tfidfFile,   \* simple_vector_db.pkl: the pickled documents list
    dense_ok,    \* whether VectorDatabase() can be constructed on this machine
    \* ---- the running reindex process
    pc,          \* "idle" | "extract" | "load"
    entry,       \* "none" | "seq" | "async" | "mp": which orchestrator runs
    force,       \* process_all_pdfs(force=...)
    cleared,     \* the run began with clear_old_data
    runNo,       \* runs started so far
    st,          \* st[f]: state of item f in the current run
    results,     \* results list of the cooperative / process pool
    summary,     \* the run summary
    backend,     \* "none" | "chroma" | "tfidf": the backend the run populated
    outcome,     \* "none" | "ok" | "failed" | "raised": how the population ended
    tfidfDocs,   \* SimpleVectorDatabase.documents of the running process
    \* ---- history (ghost)
    hist,        \* one entry per finished run
    crashed,     \* the orchestrator interrupted since the last finished run, or "none"
    lastAdd,     \* the records of the last add_documents call that returned normally
    \* ---- chunk cache
    cacheFile,   \* cacheFile[p]: the cache file of provider p
    cacheMem,    \* cacheMem[p]: self.cache of the live chunker of provider p
    lastCall,    \* the last chunk_document call and what it returned
    putLog,      \* ghost: putLog[p][t]: the chunks p last stored for text t
    ioLog,       \* ghost: ioLog[p]: cache I/O failures and restarts of p
    computations,\* ghost: computations[t]: API chunkings performed for text t
    cacheCalls,  \* chunk_document calls made so far
    \* ---- search service
    jsonCorpus,  \* jsonCorpus[f]: text and dispute type of the JSON document of f
    denseStore,  \* the records of the persisted ChromaDB collection
    pickleDocs,  \* the documents list pickled in simple_vector_db.pkl
    vector_db,   \* the VectorDatabase object: "none" | "root" | "filterable"
    simple_db,   \* the SimpleVectorDatabase object
    vector_backend, \* vector_backend["type"] of main.py
    harness,     \* "none" | "main" | "pipeline": who selected the backend
    denseFailed, \* ghost: "no" | "construct" | "populate"
    lastSearch,  \* the last search served and what it returned
    searchCalls, \* searches served so far
    \* ---- store population
    docShape,    \* docShape[f]: what the JSON file of f holds
    loadStore,   \* source files whose records the store holds
    loadLog,     \* the last population: what was added, what was logged
    loadCalls,   \* populations started so far
    asyncPos,    \* position of create_vector_database in the JSON listing, 0 idle
    inFlight,    \* files whose add_documents call is running in the pool
    awaiting,    \* the file whose future the coroutine awaits, 0 none
    \* ---- large-document windows
    wKind,       \* which loop cuts the text: "none" or one of Loops
    wLen,        \* len(text)
    wStart,      \* start (i of the range loop)
    part_num,    \* part_num
    all_chunks,  \* ids of the chunks in all_chunks
    duplicate_id,\* ghost: an id was appended that all_chunks already held
    wPass,       \* ghost: parity of the passes the loop has made
    wpc,         \* "idle" | "loop" | "returned"
    \* ---- chunk cache under the process pool
    poolFile,    \* keys held by the durable cache file
    poolNext,    \* the next PDF pool.imap hands out
    poolRuns,    \* pools created so far
    poolPuts,    \* ghost: documents whose put completed in this run
    wState,      \* wState[w]: "idle" | "chunking"
    wDoc,        \* wDoc[w]: the document worker w processes
    wCache,      \* wCache[w]: self.cache of the chunker of worker w
    \* ---- sparse backend object
    sdb,         \* the SimpleVectorDatabase object: documents, rows, is_fitted
    db_file,     \* simple_vector_db.pkl: state "none" | "ok" | "corrupt"
    fits,        \* ghost: fit_transform calls that succeeded
    lastOp,      \* ghost: the last call made on a backend
    opCalls,     \* calls made so far
    \* ---- cooperative pool
    taskState,   \* taskState[f]: "discovered" | "queued" | "processing" | final
    taskResults, \* the results as_completed has yielded, in order
    xpc          \* "idle" | "gathering" | "returned"

diskVars == <<pdfKind, pdfVer, json, chroma, tfidfFile, dense_ok>>
runVars ==
    <<pc, entry, force, cleared, runNo, st, results, summary, backend, outcome,
      tfidfDocs>>
ghostVars == <<hist, crashed, lastAdd>>
cacheVars ==
    <<cacheFile, cacheMem, lastCall, putLog, ioLog, computations, cacheCalls>>
searchVars ==
    <<jsonCorpus, denseStore, pickleDocs, vector_db, simple_db, vector_backend,
      harness, denseFailed, lastSearch, searchCalls>>
loadVars ==
    <<docShape, loadStore, loadLog, loadCalls, asyncPos, inFlight, awaiting>>
windowVars ==
    <<wKind, wLen, wStart, part_num, all_chunks, duplicate_id, wPass, wpc>>
poolVars == <<poolFile, poolNext, poolRuns, poolPuts, wState, wDoc, wCache>>
sparseVars == <<sdb, db_file, fits, lastOp, opCalls>>
execVars == <<taskState, taskResults, xpc>>
auxVars ==
    <<searchVars, loadVars, windowVars, poolVars, sparseVars, execVars>>
vars == <<diskVars, runVars, ghostVars, cacheVars, auxVars>>
coreVars == <<diskVars, runVars, ghostVars, cacheVars>>
otherThanSearch ==
    <<coreVars, loadVars, windowVars, poolVars, sparseVars, execVars>>
otherThanLoad ==
    <<coreVars, searchVars, windowVars, poolVars, sparseVars, execVars>>
otherThanWindow ==
    <<coreVars, searchVars, loadVars, poolVars, sparseVars, execVars>>
otherThanPool ==
    <<coreVars, searchVars, loadVars, windowVars, sparseVars, execVars>>
otherThanSparse ==
    <<coreVars, searchVars, loadVars, windowVars, poolVars, execVars>>
otherThanExec ==
    <<coreVars, searchVars, loadVars, windowVars, poolVars, sparseVars>>

\* ------------------------------------------------------------ data model
NoJson == [state |-> "none", ver |-> 0, mt |-> 0]

\* ids of vector_database.py: "{source_file}_{chunk id}" and "{source_file}_position_{j}"
RecIds ==
    (Items \X {"chunk"} \X (0..(NumChunks - 1)))
        \cup (Items \X {"position"} \X (0..(NumPositions - 1)))

EmptyCollection == [id \in RecIds |-> 0]

ZeroSummary ==
    [processed |-> 0, skipped |-> 0, errors |-> 0, total |-> NumItems,
     processed_files |-> <<>>]

Final == {"processed", "skipped", "error", "dropped"}

\* os.path.exists(json_path) and os.path.getmtime(json_path) >= os.path.getmtime(pdf_path)
UpToDate(f, mt) ==
    /\ json[f].state # "none"
    /\ mt = "ok"
    /\ json[f].mt >= pdfVer[f]

\* ------------------------------------------------------- index backends
\* load_from_json_files: the documents json.load could parse, in listing order
LoadedDocs ==
    LET ok == SelectSeq(ItemSeq, LAMBDA f : json[f].state = "ok")
    IN  [i \in 1..Len(ok) |-> [source_file |-> ok[i], ver |-> json[ok[i]].ver]]

\* VectorDatabase.add_documents: the (id, text) pairs built from the documents
DenseRecords(docs) ==
    LET src == {docs[i].source_file : i \in 1..Len(docs)}
        verOf(f) == (CHOOSE i \in 1..Len(docs) : docs[i].source_file = f)
    IN  [id \in {r \in RecIds : r[1] \in src} |-> docs[verOf(id[1])].ver]

\* chromadb Collection.add: an id that is already stored is never overwritten;
\* depending on the chromadb release the call skips it or raises
ChromaAdd(coll, recs, policy) ==
    LET clash == \E id \in DOMAIN recs : coll[id] # 0
    IN  IF policy = "raise" /\ clash
        THEN [coll |-> coll, raised |-> TRUE]
        ELSE [coll |-> [id \in RecIds |->
                          IF coll[id] = 0 /\ id \in DOMAIN recs
                          THEN recs[id] ELSE coll[id]],
              raised |-> FALSE]

\* SimpleVectorDatabase.add_documents: texts and metadatas of one call
RECURSIVE SparseTexts(_, _)
SparseTexts(docs, texts) ==
    IF docs = <<>> THEN texts
    ELSE LET d == Head(docs)
             withChunks ==
                 texts \o [j \in 1..NumChunks |->
                     [source_file |-> d.source_file,
                      chunk_id |-> <<"chunk", j - 1>>, ver |-> d.ver]]
             withPositions ==
                 withChunks \o [k \in 1..NumPositions |->
                     [source_file |-> d.source_file,
                      chunk_id |-> <<"position", Len(withChunks) + k>>,
                      ver |-> d.ver]]
         IN  SparseTexts(Tail(docs), withPositions)

\* collection.count()
ChromaCount == Cardinality({id \in RecIds : chroma[id] # 0})

\* document_count of the backend the run populated
StoreCount ==
    IF backend = "tfidf" THEN Len(tfidfDocs) ELSE ChromaCount

\* the records add_documents was given, as (source, kind, content version)
AddedDense(docs) ==
    {[id |-> id, ver |-> DenseRecords(docs)[id]] : id \in DOMAIN DenseRecords(docs)}

AddedSparse(docs) ==
    LET t == SparseTexts(docs, <<>>)
    IN  {[id |-> <<t[i].source_file, t[i].chunk_id[1], t[i].chunk_id[2]>>,
          ver |-> t[i].ver] : i \in 1..Len(t)}

\* ------------------------------------------------------------------ Init
InitDisk ==
    /\ pdfKind \in [Items -> {"good", "unreadable", "raises"}]
    /\ pdfVer = [f \in Items |-> 1]
    /\ json = [f \in Items |-> NoJson]
    /\ chroma = EmptyCollection
    /\ tfidfFile = <<>>
    /\ dense_ok \in BOOLEAN

InitRun ==
    /\ pc = "idle"
    /\ entry = "none"
    /\ force = FALSE
    /\ cleared = FALSE
    /\ runNo = 0
    /\ st = [f \in Items |-> "discovered"]
    /\ results = <<>>
    /\ summary = ZeroSummary
    /\ backend = "none"
    /\ outcome = "none"
    /\ tfidfDocs = <<>>
    /\ hist = <<>>
    /\ crashed = "none"
    /\ lastAdd = {}

CacheIdle ==
    /\ cacheFile = <<>>
    /\ cacheMem = <<>>
    /\ lastCall = <<>>
    /\ putLog = <<>>
    /\ ioLog = <<>>
    /\ computations = <<>>
    /\ cacheCalls = 0

\* no search service is running
NoDb == [built |-> FALSE, documents |-> <<>>, is_fitted |-> FALSE]
NoSearch ==
    [served_by |-> "none", harness |-> "none", query |-> {}, filter |-> "none",
     retried |-> FALSE, raised |-> FALSE, results |-> <<>>, response |-> <<>>]

SearchIdle ==
    /\ jsonCorpus = <<>>
    /\ denseStore = <<>>
    /\ pickleDocs = <<>>
    /\ vector_db = "none"
    /\ simple_db = NoDb
    /\ vector_backend = ""
    /\ harness = "none"
    /\ denseFailed = "no"
    /\ lastSearch = NoSearch
    /\ searchCalls = 0

\* no store population is running
LoadIdle ==
    /\ docShape = <<>>
    /\ loadStore = {}
    /\ loadLog = <<>>
    /\ loadCalls = 0
    /\ asyncPos = 0
    /\ inFlight = {}
    /\ awaiting = 0

\* no document is being cut into parts
WindowIdle ==
    /\ wKind = "none"
    /\ wLen = 0
    /\ wStart = 0
    /\ part_num = 0
    /\ all_chunks = {}
    /\ duplicate_id = FALSE
    /\ wPass = 0
    /\ wpc = "idle"

\* no process pool exists
PoolIdle ==
    /\ poolFile = {}
    /\ poolNext = 0
    /\ poolRuns = 0
    /\ poolPuts = {}
    /\ wState = <<>>
    /\ wDoc = <<>>
    /\ wCache = <<>>

\* no sparse backend object is exercised
SparseIdle ==
    /\ sdb = [documents |-> <<>>, rows |-> <<>>, is_fitted |-> FALSE]
    /\ db_file = [state |-> "none", data |-> sdb]
    /\ fits = 0
    /\ lastOp = [op |-> "none"]
    /\ opCalls = 0

\* no cooperative pool is running
ExecIdle ==
    /\ taskState = <<>>
    /\ taskResults = <<>>
    /\ xpc = "idle"

AuxIdle ==
    /\ SearchIdle /\ LoadIdle /\ WindowIdle /\ PoolIdle /\ SparseIdle
    /\ ExecIdle

Init == InitDisk /\ InitRun /\ CacheIdle /\ AuxIdle

\* ------------------------------------------- sequential process_all_pdfs
\* clear_old_data / the rmtree calls of reindex_with_improved_labeling.main
ClearedJson == [f \in Items |-> NoJson]

StartSeq(fr, clr) ==
    /\ pc = "idle"
    /\ runNo < MaxRuns
    /\ clr => fr
    /\ pc' = "extract"
    /\ entry' = "seq"
    /\ force' = fr
    /\ cleared' = clr
    /\ runNo' = runNo + 1
    /\ st' = [f \in Items |-> "discovered"]
    /\ results' = <<>>
    /\ summary' = ZeroSummary
    /\ backend' = "none"
    /\ outcome' = "none"
    /\ tfidfDocs' = <<>>
    /\ json' = IF clr THEN ClearedJson ELSE json
    /\ chroma' = IF clr THEN EmptyCollection ELSE chroma
    /\ tfidfFile' = IF clr THEN <<>> ELSE tfidfFile
    /\ UNCHANGED <<pdfKind, pdfVer, dense_ok, ghostVars, cacheVars, auxVars>>

\* the next file of the for loop
SeqNext(f) ==
    /\ st[f] = "discovered"
    /\ \A g \in Items : g < f => st[g] \in Final

\* a loop without the except clause: the exception of one item ends the run
SeqOnRaiseAbort(f) ==
    /\ summary' = summary
    /\ st' = st
    /\ pc' = "done"

\* process_all_pdfs: what the except clause does with an exception of one item
SeqOnRaise(f) ==
    /\ summary' = [summary EXCEPT !.errors = @ + 1]
    /\ st' = [st EXCEPT ![f] = "error"]
    /\ pc' = pc

\* one iteration of the for loop up to the open() of save_json
SeqItem(f, mt, openOK) ==
    /\ pc = "extract"
    /\ entry = "seq"
    /\ SeqNext(f)
    /\ IF ~force /\ UpToDate(f, mt)
       THEN /\ summary' = [summary EXCEPT !.skipped = @ + 1]
            /\ st' = [st EXCEPT ![f] = "skipped"]
            /\ UNCHANGED <<json, pc>>
       ELSE CASE pdfKind[f] = "raises" ->
                    /\ SeqOnRaise(f)
                    /\ UNCHANGED json
              [] pdfKind[f] = "unreadable" ->
                    \* process_pdf_to_json returned {}: nothing is counted
                    /\ st' = [st EXCEPT ![f] = "dropped"]
                    /\ UNCHANGED <<json, summary, pc>>
              [] OTHER ->
                    IF openOK
                    THEN /\ json' = [json EXCEPT ![f] =
                                [state |-> "trunc", ver |-> 0, mt |-> pdfVer[f]]]
                         /\ st' = [st EXCEPT ![f] = "saving"]
                         /\ UNCHANGED <<summary, pc>>
                    ELSE \* save_json logged the error and returned
                         /\ summary' = [summary EXCEPT
                                !.processed = @ + 1,
                                !.processed_files = Append(@, f)]
                         /\ st' = [st EXCEPT ![f] = "processed"]
                         /\ UNCHANGED <<json, pc>>
    /\ UNCHANGED <<pdfKind, pdfVer, chroma, tfidfFile, dense_ok, entry, force,
                   cleared, runNo, results, backend, outcome, tfidfDocs, ghostVars,
                   cacheVars, auxVars>>

\* json.dump inside save_json, then the counting of the item
SeqSaveEnd(f, dumpOK) ==
    /\ pc = "extract"
    /\ entry = "seq"
    /\ st[f] = "saving"
    /\ json' = IF dumpOK
               THEN [json EXCEPT ![f] =
                        [state |-> "ok", ver |-> pdfVer[f], mt |-> pdfVer[f]]]
               ELSE json
    /\ summary' = [summary EXCEPT
            !.processed = @ + 1,
            !.processed_files = Append(@, f)]
    /\ st' = [st EXCEPT ![f] = "processed"]
    /\ UNCHANGED <<pdfKind, pdfVer, chroma, tfidfFile, dense_ok, pc, entry, force,
                   cleared, runNo, results, backend, outcome, tfidfDocs, ghostVars,
                   cacheVars, auxVars>>

\* process_all_pdfs returns its summary
SeqReturn ==
    /\ pc = "extract"
    /\ entry = "seq"
    /\ \A f \in Items : st[f] \in Final
    /\ pc' = "load"
    /\ UNCHANGED <<diskVars, entry, force, cleared, runNo, st, results, summary,
                   backend, outcome, tfidfDocs, ghostVars, cacheVars, auxVars>>

\* --------------------------------------------- populating the Index Store
\* VectorDatabase() followed by load_from_json_files(JSON_DIR)
DenseLoad(policy, embedOK) ==
    LET docs == LoadedDocs
        r == ChromaAdd(chroma, DenseRecords(docs), policy)
    IN  IF ~dense_ok THEN [ok |-> FALSE, coll |-> chroma, added |-> {}]
        ELSE IF docs = <<>> THEN [ok |-> TRUE, coll |-> chroma, added |-> {}]
        ELSE IF ~embedOK \/ r.raised
             THEN [ok |-> FALSE, coll |-> chroma, added |-> {}]
             ELSE [ok |-> TRUE, coll |-> r.coll, added |-> AddedDense(docs)]

\* SimpleVectorDatabase() followed by load_from_json_files(JSON_DIR)
SparseLoad(fitOK, saveOK) ==
    LET docs == LoadedDocs
        extended == tfidfFile \o SparseTexts(docs, <<>>)
    IN  IF docs = <<>>
        THEN [ok |-> TRUE, mem |-> tfidfFile, file |-> tfidfFile, added |-> {}]
        ELSE IF ~fitOK
             THEN [ok |-> FALSE, mem |-> extended, file |-> tfidfFile, added |-> {}]
             ELSE [ok |-> TRUE, mem |-> extended,
                   file |-> IF saveOK THEN extended ELSE tfidfFile,
                   added |-> AddedSparse(docs)]

\* step2_create_vector_database (dense, then sparse), the load of
\* reindex_with_improved_labeling.main (dense, errors propagate) and
\* load_to_vector_database (dense, errors swallowed)
LoadStore(policy, embedOK, fitOK, saveOK) ==
    /\ pc = "load"
    /\ entry \in {"seq", "mp"}
    /\ LET d == DenseLoad(policy, embedOK)
           s == SparseLoad(fitOK, saveOK)
       IN  IF d.ok
           THEN /\ chroma' = d.coll
                /\ backend' = "chroma"
                /\ outcome' = "ok"
                /\ lastAdd' = d.added
                /\ UNCHANGED <<tfidfFile, tfidfDocs>>
           ELSE IF entry = "seq" /\ ~cleared
                THEN /\ tfidfDocs' = s.mem
                     /\ tfidfFile' = s.file
                     /\ backend' = "tfidf"
                     /\ outcome' = IF s.ok THEN "ok" ELSE "failed"
                     /\ lastAdd' = s.added
                     /\ UNCHANGED chroma
                ELSE /\ backend' = "none"
                     /\ outcome' = IF entry = "mp" THEN "failed" ELSE "raised"
                     /\ lastAdd' = {}
                     /\ UNCHANGED <<chroma, tfidfFile, tfidfDocs>>
    /\ pc' = "done"
    /\ UNCHANGED <<pdfKind, pdfVer, json, dense_ok, entry, force, cleared, runNo,
                   st, results, summary, hist, crashed, cacheVars, auxVars>>

\* the run is over: the process exits
FinishRun ==
    /\ pc = "done"
    /\ pc' = "idle"
    /\ hist' = Append(hist,
            [entry |-> entry, force |-> force, cleared |-> cleared,
             summary |-> summary, backend |-> backend, outcome |-> outcome,
             count |-> StoreCount, pdfVer |-> pdfVer, afterCrash |-> crashed,
             st |-> st])
    /\ crashed' = "none"
    /\ UNCHANGED <<diskVars, entry, force, cleared, runNo, st, results, summary,
                   backend, outcome, tfidfDocs, lastAdd, cacheVars, auxVars>>

\* the process is killed: memory is lost, the files stay as they are
Crash ==
    /\ pc \in {"extract", "load"}
    /\ pc' = "idle"
    /\ crashed' = entry
    /\ st' = [f \in Items |-> "discovered"]
    /\ results' = <<>>
    /\ summary' = ZeroSummary
    /\ backend' = "none"
    /\ outcome' = "none"
    /\ tfidfDocs' = <<>>
    /\ UNCHANGED <<diskVars, entry, force, cleared, runNo, hist, lastAdd, cacheVars, auxVars>>

\* a PDF of the corpus is replaced by a new version between two runs
TouchPdf(f) ==
    /\ pc = "idle"
    /\ runNo < MaxRuns
    /\ pdfKind[f] = "good"
    /\ pdfVer[f] < MaxVer
    /\ pdfVer' = [pdfVer EXCEPT ![f] = @ + 1]
    /\ UNCHANGED <<pdfKind, json, chroma, tfidfFile, dense_ok, runVars, ghostVars,
                   cacheVars, auxVars>>

\* ------------------------------------------------ summaries from results
CountStatus(res, status) ==
    Cardinality({i \in 1..Len(res) : res[i].status = status})

\* print_statistics / the counting at the end of process_all_pdfs_async; total
\* is len(results) (the dictionary process_all_pdfs_async returns has no
\* 'total' key)
SummaryOf(res) ==
    LET done == SelectSeq(res, LAMBDA r : r.status = "processed")
    IN  [processed |-> CountStatus(res, "processed"),
         skipped |-> CountStatus(res, "skipped"),
         errors |-> CountStatus(res, "error"),
         total |-> Len(res),
         processed_files |-> [i \in 1..Len(done) |-> done[i].file]]

\* ------------------------------------------------------- OS process pool
num_processes == IF CpuCount < NumItems THEN CpuCount ELSE NumItems

\* multiprocess_reindex.main: clear_old_data, get_pdf_files, the pool
StartMp ==
    /\ pc = "idle"
    /\ runNo < MaxRuns
    /\ pc' = "extract"
    /\ entry' = "mp"
    /\ force' = FALSE
    /\ cleared' = TRUE
    /\ runNo' = runNo + 1
    /\ st' = [f \in Items |-> "discovered"]
    /\ results' = <<>>
    /\ summary' = ZeroSummary
    /\ backend' = "none"
    /\ outcome' = "none"
    /\ tfidfDocs' = <<>>
    /\ json' = ClearedJson
    /\ chroma' = EmptyCollection
    /\ tfidfFile' = <<>>
    /\ UNCHANGED <<pdfKind, pdfVer, dense_ok, ghostVars, cacheVars, auxVars>>

\* process_single_pdf_worker: the status of an item whose processing raised
MpOnRaise(f) == [st EXCEPT ![f] = "error"]

\* process_single_pdf_worker up to the open() of save_json
MpWorker(f, mt, openOK) ==
    /\ pc = "extract"
    /\ entry = "mp"
    /\ st[f] = "discovered"
    /\ Cardinality({g \in Items : st[g] = "saving"}) < num_processes
    /\ IF UpToDate(f, mt)
       THEN /\ st' = [st EXCEPT ![f] = "skipped"]
            /\ UNCHANGED json
       ELSE CASE pdfKind[f] = "raises" ->
                    /\ st' = MpOnRaise(f)
                    /\ UNCHANGED json
              [] pdfKind[f] = "unreadable" ->
                    /\ st' = [st EXCEPT ![f] = "error"]
                    /\ UNCHANGED json
              [] OTHER ->
                    IF openOK
                    THEN /\ json' = [json EXCEPT ![f] =
                                [state |-> "trunc", ver |-> 0, mt |-> pdfVer[f]]]
                         /\ st' = [st EXCEPT ![f] = "saving"]
                    ELSE /\ st' = [st EXCEPT ![f] = "processed"]
                         /\ UNCHANGED json
    /\ UNCHANGED <<pdfKind, pdfVer, chroma, tfidfFile, dense_ok, pc, entry, force,
                   cleared, runNo, results, summary, backend, outcome, tfidfDocs,
                   ghostVars, cacheVars, auxVars>>

\* json.dump inside save_json, then the worker returns 'processed'
MpSaveEnd(f, dumpOK) ==
    /\ pc = "extract"
    /\ entry = "mp"
    /\ st[f] = "saving"
    /\ json' = IF dumpOK
               THEN [json EXCEPT ![f] =
                        [state |-> "ok", ver |-> pdfVer[f], mt |-> pdfVer[f]]]
               ELSE json
    /\ st' = [st EXCEPT ![f] = "processed"]
    /\ UNCHANGED <<pdfKind, pdfVer, chroma, tfidfFile, dense_ok, pc, entry, force,
                   cleared, runNo, results, summary, backend, outcome, tfidfDocs,
                   ghostVars, cacheVars, auxVars>>

\* pool.imap has yielded every result, in submission order; print_statistics
MpCollect ==
    /\ pc = "extract"
    /\ entry = "mp"
    /\ \A f \in Items : st[f] \in Final
    /\ results' = [i \in 1..NumItems |-> [file |-> i, status |-> st[i]]]
    /\ summary' = SummaryOf(results')
    /\ pc' = "load"
    /\ UNCHANGED <<diskVars, entry, force, cleared, runNo, st, backend, outcome,
                   tfidfDocs, ghostVars, cacheVars, auxVars>>

\* ------------------------------------------------------ cooperative pool
\* run_full_reindex (clear_old_data first) or process_all_pdfs_async alone
StartAsync(clr) ==
    /\ pc = "idle"
    /\ runNo < MaxRuns
    /\ pc' = "extract"
    /\ entry' = "async"
    /\ force' = FALSE
    /\ cleared' = clr
    /\ runNo' = runNo + 1
    /\ st' = [f \in Items |-> "discovered"]
    /\ results' = <<>>
    /\ summary' = ZeroSummary
    /\ backend' = "none"
    /\ outcome' = "none"
    /\ tfidfDocs' = <<>>
    /\ json' = IF clr THEN ClearedJson ELSE json
    /\ chroma' = IF clr THEN EmptyCollection ELSE chroma
    /\ tfidfFile' = IF clr THEN <<>> ELSE tfidfFile
    /\ UNCHANGED <<pdfKind, pdfVer, dense_ok, ghostVars, cacheVars, auxVars>>

\* process_single_pdf up to the await: skip, or submit to the executor
AsyncTask(f, mt) ==
    /\ pc = "extract"
    /\ entry = "async"
    /\ st[f] = "discovered"
    /\ IF UpToDate(f, mt)
       THEN /\ st' = [st EXCEPT ![f] = "skipped"]
            /\ results' = Append(results, [file |-> f, status |-> "skipped"])
       ELSE /\ st' = [st EXCEPT ![f] = "queued"]
            /\ UNCHANGED results
    /\ UNCHANGED <<diskVars, pc, entry, force, cleared, runNo, summary, backend,
                   outcome, tfidfDocs, ghostVars, cacheVars, auxVars>>

\* a free thread of ThreadPoolExecutor(max_workers) takes a queued call
ExecStart(f) ==
    /\ pc = "extract"
    /\ entry = "async"
    /\ st[f] = "queued"
    /\ Cardinality({g \in Items : st[g] = "processing"}) < max_workers
    /\ st' = [st EXCEPT ![f] = "processing"]
    /\ UNCHANGED <<diskVars, pc, entry, force, cleared, runNo, results, summary,
                   backend, outcome, tfidfDocs, ghostVars, cacheVars, auxVars>>

\* process_single_pdf: the status of an item whose processing raised
AsyncOnRaise == "error"

\* _process_pdf_sync returned or raised; process_single_pdf builds its result
ExecFinish(f) ==
    /\ pc = "extract"
    /\ entry = "async"
    /\ st[f] = "processing"
    /\ LET status == IF pdfKind[f] = "raises" THEN AsyncOnRaise ELSE "processed"
       IN  /\ st' = [st EXCEPT ![f] = status]
           /\ results' = Append(results, [file |-> f, status |-> status])
    /\ UNCHANGED <<diskVars, pc, entry, force, cleared, runNo, summary, backend,
                   outcome, tfidfDocs, ghostVars, cacheVars, auxVars>>

\* as_completed is exhausted: process_all_pdfs_async counts and returns
AsyncSummarize ==
    /\ pc = "extract"
    /\ entry = "async"
    /\ \A f \in Items : st[f] \in Final
    /\ summary' = SummaryOf(results)
    /\ pc' = IF cleared THEN "load" ELSE "done"
    /\ UNCHANGED <<diskVars, entry, force, cleared, runNo, st, results, backend,
                   outcome, tfidfDocs, ghostVars, cacheVars, auxVars>>

\* create_vector_database: one add_documents([data]) per JSON file, each
\* failure logged and skipped
RECURSIVE AsyncLoadFold(_, _, _, _)
AsyncLoadFold(files, coll, policy, embedOK) ==
    IF files = <<>> THEN coll
    ELSE LET f == Head(files)
             doc == <<[source_file |-> f, ver |-> json[f].ver]>>
             r == ChromaAdd(coll, DenseRecords(doc), policy)
             next == IF json[f].state # "ok" \/ ~embedOK \/ r.raised
                     THEN coll ELSE r.coll
         IN  AsyncLoadFold(Tail(files), next, policy, embedOK)

AsyncCreateVectorDb(policy, embedOK) ==
    /\ pc = "load"
    /\ entry = "async"
    /\ IF ~dense_ok
       THEN /\ backend' = "none"
            /\ outcome' = "raised"
            /\ UNCHANGED chroma
       ELSE /\ chroma' = AsyncLoadFold(
                    SelectSeq(ItemSeq, LAMBDA f : json[f].state # "none"),
                    chroma, policy, embedOK)
            /\ backend' = "chroma"
            /\ outcome' = "ok"
    /\ pc' = "done"
    /\ UNCHANGED <<pdfKind, pdfVer, json, tfidfFile, dense_ok, entry, force,
                   cleared, runNo, st, results, summary, tfidfDocs, ghostVars,
                   cacheVars, auxVars>>

\* ------------------------------------------------------------------ Spec
SeqStep ==
    \/ \E fr, clr \in BOOLEAN : StartSeq(fr, clr)
    \/ \E f \in Items, mt \in {"ok", "oserror"}, openOK \in BOOLEAN :
            SeqItem(f, mt, openOK)
    \/ \E f \in Items, dumpOK \in BOOLEAN : SeqSaveEnd(f, dumpOK)
    \/ SeqReturn

MpStep ==
    \/ StartMp
    \/ \E f \in Items, mt \in {"ok", "oserror"}, openOK \in BOOLEAN :
            MpWorker(f, mt, openOK)
    \/ \E f \in Items, dumpOK \in BOOLEAN : MpSaveEnd(f, dumpOK)
    \/ MpCollect

AsyncStep ==
    \/ \E clr \in BOOLEAN : StartAsync(clr)
    \/ \E f \in Items, mt \in {"ok", "oserror"} : AsyncTask(f, mt)
    \/ \E f \in Items : ExecStart(f)
    \/ \E f \in Items : ExecFinish(f)
    \/ AsyncSummarize
    \/ \E policy \in {"ignore", "raise"}, embedOK \in BOOLEAN :
            AsyncCreateVectorDb(policy, embedOK)

StoreStep ==
    \/ \E policy \in {"ignore", "raise"}, embedOK, fitOK, saveOK \in BOOLEAN :
            LoadStore(policy, embedOK, fitOK, saveOK)
    \/ FinishRun

EnvStep ==
    \/ Crash
    \/ \E f \in Items : TouchPdf(f)

Next == SeqStep \/ MpStep \/ AsyncStep \/ StoreStep \/ EnvStep

Spec == Init /\ [][Next]_vars

\* ============================================================ chunk cache
TextLen == 2         \* characters of a document text that the model varies
LargePad == 60000    \* further characters of a large document
MaxCalls == 2        \* chunk_document calls in one behaviour
MaxRestarts == 1     \* chunker instances created after the first, per provider

\* if text_length > 50000 (GeminiChunker.chunk_document)
large_document_chars == 50000
\* max_tokens = 100000 (ChatGPTChunker.chunk_document)
max_tokens == 100000

Providers == {"gemini", "chatgpt"}
Chars == {"a", "b"}
Sources == {"a.pdf", "b.pdf"}

\* a document text: TextLen characters followed by pad further ones
Texts == [chars : [1..TextLen -> Chars], pad : {0, LargePad}]

text_length(t) == TextLen + t.pad

\* t and u differ in exactly one character
OneCharApart(t, u) ==
    /\ t.pad = u.pad
    /\ Cardinality({i \in 1..TextLen : t.chars[i] # u.chars[i]}) = 1

CharCode(c) == IF c = "a" THEN 1 ELSE 2

\* a digest of the first n characters and of the length of the text
RECURSIVE Digest(_, _)
Digest(t, n) ==
    IF n = 0 THEN (IF t.pad = 0 THEN 1 ELSE 2)
    ELSE Digest(t, n - 1) * 3 + CharCode(t.chars[n])

\* a key that hashes the text without its last character
get_cache_key_prefix(text) == Digest(text, TextLen - 1)

\* get_cache_key: hashlib.md5(text.encode("utf-8")).hexdigest()
get_cache_key(text) == Digest(text, TextLen)

\* the chunk list a chunking of text t for source file s by method m yields
Chunks(t, s, m) == [source_file |-> s, chunking_method |-> m, text |-> t]

\* fallback_chunking: the paragraphs of the text
fallback_chunking(t, s) == Chunks(t, s, "fallback")

NoChunks == [source_file |-> "", chunking_method |-> "none"]
NoPut == [chunks |-> NoChunks, epoch |-> 0]
EmptyCache == <<>>
NoFile == [state |-> "missing", members |-> {}]
NoCall ==
    [op |-> "none", provider |-> "none", hit |-> FALSE, raised |-> FALSE,
     cached |-> FALSE, io |-> "ok", result |-> NoChunks, computed |-> NoChunks]

\* a save that lets the error of the cache file reach its caller
save_cache_raising(file, cache, io) ==
    [file |-> IF io = "ok"
              THEN [state |-> "ok",
                    members |-> {<<k, cache[k]>> : k \in DOMAIN cache}]
              ELSE file,
     raised |-> io # "ok"]

\* save_cache: open(cache_file, "w") and json.dump(self.cache); every error
\* is logged and swallowed
save_cache(file, cache, io) ==
    [file |-> CASE io = "ok" ->
                    [state |-> "ok",
                     members |-> {<<k, cache[k]>> : k \in DOMAIN cache}]
                [] io = "dump_failed" -> [state |-> "corrupt", members |-> {}]
                [] OTHER -> file,
     raised |-> FALSE]

\* load_cache: json.load of the cache file if it exists; {} on any error
load_cache(file, io) ==
    [cache |-> IF file.state = "ok" /\ io = "ok"
               THEN [k \in {m[1] : m \in file.members} |->
                        (CHOOSE m \in file.members : m[1] = k)[2]]
               ELSE EmptyCache,
     raised |-> FALSE]

\* self.cache[cache_key] = chunks
CachePut(cache, key, chunks) ==
    [k \in DOMAIN cache \cup {key} |-> IF k = key THEN chunks ELSE cache[k]]

\* ghost bookkeeping of a put by provider p
LogPut(p, t, chunks, io) ==
    /\ putLog' = [putLog EXCEPT ![p][t] =
            [chunks |-> chunks, epoch |-> ioLog[p].restarts]]
    /\ ioLog' = [ioLog EXCEPT ![p].unsaved = (io # "ok")]

\* GeminiChunker.chunk_document(text, source_file), a call that returns; api
\* is the stage of chunk_with_gemini -> chunk_with_chatgpt -> fallback_chunking
\* that delivers. A text longer than large_document_chars goes to
\* chunk_with_chatgpt, which returns only when no OpenAI client exists (the
\* fallback): with a client it enters the window loop of
\* chunk_large_document_chatgpt (see WindowIterate)
GeminiChunkDocument(t, s, api, io) ==
    /\ cacheCalls < MaxCalls
    /\ text_length(t) > large_document_chars => api = "fallback"
    /\ LET p == "gemini"
           cache_key == get_cache_key(t)
           hit == cache_key \in DOMAIN cacheMem[p]
           chunks == Chunks(t, s, api)
           cache == CachePut(cacheMem[p], cache_key, chunks)
           sv == save_cache(cacheFile[p], cache, io)
       IN  IF hit
           THEN /\ lastCall' =
                    [op |-> "chunk", provider |-> p, text |-> t, source_file |-> s,
                     hit |-> TRUE, raised |-> FALSE, cached |-> FALSE, io |-> "ok",
                     result |-> cacheMem[p][cache_key], computed |-> NoChunks]
                /\ UNCHANGED <<cacheFile, cacheMem, putLog, ioLog, computations>>
           ELSE /\ cacheMem' = [cacheMem EXCEPT ![p] = cache]
                /\ cacheFile' = [cacheFile EXCEPT ![p] = sv.file]
                /\ lastCall' =
                    [op |-> "chunk", provider |-> p, text |-> t, source_file |-> s,
                     hit |-> FALSE, raised |-> FALSE, cached |-> TRUE, io |-> io,
                     result |-> IF sv.raised THEN fallback_chunking(t, s) ELSE chunks,
                     computed |-> chunks]
                /\ computations' = [computations EXCEPT ![t] =
                        IF api = "fallback" THEN @ ELSE @ + 1]
                /\ LogPut(p, t, chunks, io)
    /\ cacheCalls' = cacheCalls + 1
    /\ UNCHANGED <<auxVars, diskVars, runVars, ghostVars>>

\* ChatGPTChunker.chunk_document(text, source_file) for a text of at most
\* max_tokens characters; api: "nokey" OPENAI_API_KEY is not set, "error" the
\* API call or the parsing raised, "chatgpt" the API delivered
ChatGPTChunkDocument(t, s, api, io) ==
    /\ cacheCalls < MaxCalls
    /\ text_length(t) <= max_tokens
    /\ LET p == "chatgpt"
           cache_key == get_cache_key(t)
           hit == cache_key \in DOMAIN cacheMem[p]
           chunks == Chunks(t, s, "chatgpt")
           cache == CachePut(cacheMem[p], cache_key, chunks)
           sv == save_cache(cacheFile[p], cache, io)
       IN  IF hit
           THEN /\ lastCall' =
                    [op |-> "chunk", provider |-> p, text |-> t, source_file |-> s,
                     hit |-> TRUE, raised |-> FALSE, cached |-> FALSE, io |-> "ok",
                     result |-> cacheMem[p][cache_key], computed |-> NoChunks]
                /\ UNCHANGED <<cacheFile, cacheMem, putLog, ioLog, computations>>
           ELSE IF api # "chatgpt"
           THEN /\ lastCall' =
                    [op |-> "chunk", provider |-> p, text |-> t, source_file |-> s,
                     hit |-> FALSE, raised |-> FALSE, cached |-> FALSE, io |-> "ok",
                     result |-> fallback_chunking(t, s), computed |-> NoChunks]
                /\ UNCHANGED <<cacheFile, cacheMem, putLog, ioLog, computations>>
           ELSE /\ cacheMem' = [cacheMem EXCEPT ![p] = cache]
                /\ cacheFile' = [cacheFile EXCEPT ![p] = sv.file]
                /\ lastCall' =
                    [op |-> "chunk", provider |-> p, text |-> t, source_file |-> s,
                     hit |-> FALSE, raised |-> FALSE, cached |-> TRUE, io |-> io,
                     result |-> IF sv.raised THEN fallback_chunking(t, s) ELSE chunks,
                     computed |-> chunks]
                /\ computations' = [computations EXCEPT ![t] = @ + 1]
                /\ LogPut(p, t, chunks, io)
    /\ cacheCalls' = cacheCalls + 1
    /\ UNCHANGED <<auxVars, diskVars, runVars, ghostVars>>

\* the process ends and a new one constructs the chunker of provider p:
\* __init__ sets self.cache = self.load_cache()
Restart(p, io) ==
    /\ ioLog[p].restarts < MaxRestarts
    /\ LET r == load_cache(cacheFile[p], io)
       IN  /\ cacheMem' = [cacheMem EXCEPT ![p] = r.cache]
           /\ lastCall' =
                [op |-> "restart", provider |-> p, hit |-> FALSE,
                 raised |-> r.raised, cached |-> FALSE, io |-> io,
                 result |-> NoChunks, computed |-> NoChunks]
    /\ ioLog' = [ioLog EXCEPT ![p] =
            [unsaved |-> FALSE,
             lost |-> \/ @.lost
                      \/ @.unsaved
                      \/ (cacheFile[p].state = "ok" /\ io # "ok"),
             restarts |-> @.restarts + 1]]
    /\ UNCHANGED <<auxVars, diskVars, runVars, ghostVars, cacheFile, putLog, computations,
                   cacheCalls>>

InitCache ==
    /\ cacheFile = [p \in Providers |-> NoFile]
    /\ cacheMem = [p \in Providers |-> load_cache(NoFile, "ok").cache]
    /\ lastCall = NoCall
    /\ putLog = [p \in Providers |-> [t \in Texts |-> NoPut]]
    /\ ioLog = [p \in Providers |->
                    [unsaved |-> FALSE, lost |-> FALSE, restarts |-> 0]]
    /\ computations = [t \in Texts |-> 0]
    /\ cacheCalls = 0

\* the corpus is at rest while the chunkers are exercised
InitAtRest ==
    /\ pdfKind = [f \in Items |-> "good"]
    /\ pdfVer = [f \in Items |-> 1]
    /\ json = [f \in Items |-> NoJson]
    /\ chroma = EmptyCollection
    /\ tfidfFile = <<>>
    /\ dense_ok = TRUE
    /\ InitRun

NextCache ==
    \/ \E t \in Texts, s \in Sources, api \in {"gemini", "chatgpt", "fallback"},
          io \in {"ok", "open_failed", "dump_failed"} :
            GeminiChunkDocument(t, s, api, io)
    \/ \E t \in Texts, s \in Sources, api \in {"nokey", "error", "chatgpt"},
          io \in {"ok", "open_failed", "dump_failed"} :
            ChatGPTChunkDocument(t, s, api, io)
    \/ \E p \in Providers, io \in {"ok", "read_failed"} : Restart(p, io)

InitChunkers == InitAtRest /\ InitCache /\ AuxIdle

SpecCache == InitChunkers /\ [][NextCache]_vars

\* ======================================================== search service
\* words of the corpus and of the queries; "goods" and "contract" are among the
\* keywords api_generate maps to a dispute type
Terms == {"goods", "contract", "court"}
TermSets == (SUBSET Terms) \ {{}}
DisputeTypes == {"consumer_protection", "contract_dispute"}
MaxSearches == 2     \* searches served in one behaviour

\* n_results of step3_test_search; api_generate asks for 5
n_results == 3

\* the (text, metadata, id) triples VectorDatabase.add_documents builds from
\* the JSON documents: one chunk per document here
DenseDocs(corpus) ==
    [i \in 1..NumItems |->
        [id |-> <<ItemSeq[i], "chunk", 0>>,
         text |-> corpus[ItemSeq[i]].text,
         metadata |-> [source_file |-> ItemSeq[i], chunk_type |-> "legal_text",
                       dispute_type |-> corpus[ItemSeq[i]].dispute_type]]]

\* the documents SimpleVectorDatabase.add_documents extends self.documents with
SparseDocs(corpus) ==
    [i \in 1..NumItems |->
        [text |-> corpus[ItemSeq[i]].text,
         metadata |-> [source_file |-> ItemSeq[i], chunk_type |-> "legal_text",
                       chunk_id |-> <<"chunk", 0>>]]]

\* the entry of s that comes first in a ranking: the least key, the
\* earliest position among equal keys
First(keys) ==
    CHOOSE i \in DOMAIN keys :
        \A j \in DOMAIN keys :
            keys[i] < keys[j] \/ (keys[i] = keys[j] /\ i <= j)

RECURSIVE RankAscending(_, _, _)
RankAscending(idx, keys, n) ==
    IF n = 0 \/ idx = <<>> THEN <<>>
    ELSE LET k == First([i \in DOMAIN idx |-> keys[idx[i]]])
             rest == [i \in 1..(Len(idx) - 1) |->
                          IF i < k THEN idx[i] ELSE idx[i + 1]]
         IN  <<idx[k]>> \o RankAscending(rest, keys, n - 1)

\* distance of the query embedding to a stored embedding: texts that share
\* more words lie closer
Distance(q, text) ==
    Cardinality((q \cup text) \ (q \cap text))

\* cosine similarity of the TF-IDF vectors: positive exactly when the query
\* and the text share a word of the vocabulary
Similarity(q, text) ==
    Cardinality(q \cap text)

\* VectorDatabase.search_similar: collection.query(n_results) and the result
\* dicts built from it
DenseSearch(recs, q, n) ==
    LET keys == [i \in 1..Len(recs) |-> Distance(q, recs[i].text)]
        top == RankAscending([i \in 1..Len(recs) |-> i], keys, n)
    IN  [i \in 1..Len(top) |->
            [text |-> recs[top[i]].text, metadata |-> recs[top[i]].metadata,
             distance |-> keys[top[i]], id |-> recs[top[i]].id]]

\* search_similar(query, n_results, dispute_type) of the packaged dense
\* backend: collection.query(where={"dispute_type": dispute_type})
FilteredSearch(recs, q, n, dispute_type) ==
    IF dispute_type = "none" THEN DenseSearch(recs, q, n)
    ELSE DenseSearch(
            SelectSeq(recs, LAMBDA r : r.metadata.dispute_type = dispute_type),
            q, n)

\* SimpleVectorDatabase.search_similar: similarities.argsort()[-n:][::-1],
\* entries of similarity 0 dropped, ids "doc_{idx}"; for n = 0 the slice
\* [-0:] is the whole array
SparseSearch(db, q, n) ==
    IF ~db.is_fitted THEN <<>>
    ELSE LET docs == db.documents
             sims == [i \in 1..Len(docs) |-> Similarity(q, docs[i].text)]
             \* argsort is ascending; reversed, the greatest comes first and
             \* of two equal similarities the later index
             keys == [i \in 1..Len(docs) |-> 0 - (sims[i] * (Len(docs) + 1) + i)]
             top == RankAscending([i \in 1..Len(docs) |-> i], keys,
                                  IF n = 0 THEN Len(docs) ELSE n)
             hits == SelectSeq(top, LAMBDA i : sims[i] > 0)
         IN  [i \in 1..Len(hits) |->
                 [text |-> docs[hits[i]].text,
                  metadata |-> docs[hits[i]].metadata,
                  similarity |-> sims[hits[i]],
                  id |-> <<"doc", hits[i] - 1>>]]

\* SimpleVectorDatabase(): load_database reads the pickle when it exists
SimpleDbConstructed ==
    [built |-> TRUE, documents |-> pickleDocs, is_fitted |-> pickleDocs # <<>>]

\* SimpleVectorDatabase.load_from_json_files: documents extended, vectorizer
\* fitted again, pickle written
SimpleDbLoaded(db) ==
    [built |-> TRUE, documents |-> db.documents \o SparseDocs(jsonCorpus),
     is_fitted |-> TRUE]

\* VectorDatabase.load_from_json_files on the persisted collection; an id
\* already stored is kept as it is
DenseLoaded(recs) ==
    LET new == SelectSeq(DenseDocs(jsonCorpus),
                   LAMBDA d : \A i \in 1..Len(recs) : recs[i].id # d.id)
    IN  recs \o new

\* main.py lifespan
Lifespan(kind, load_json_on_start, constructOK, populateOK) ==
    /\ harness = "none"
    /\ harness' = "main"
    /\ IF constructOK /\ (~load_json_on_start \/ populateOK)
       THEN /\ vector_db' = kind
            /\ denseStore' =
                   IF load_json_on_start THEN DenseLoaded(denseStore)
                   ELSE denseStore
            /\ vector_backend' = "chroma"
            /\ denseFailed' = "no"
            /\ UNCHANGED <<simple_db, pickleDocs>>
       ELSE /\ vector_db' = "none"
            /\ simple_db' =
                   IF load_json_on_start THEN SimpleDbLoaded(SimpleDbConstructed)
                   ELSE SimpleDbConstructed
            /\ pickleDocs' = simple_db'.documents
            /\ vector_backend' = "tfidf"
            /\ denseFailed' = IF constructOK THEN "populate" ELSE "construct"
            /\ UNCHANGED denseStore
    /\ UNCHANGED <<jsonCorpus, lastSearch, searchCalls, otherThanSearch>>

\* FullPipelineTest.step2_create_vector_database
Step2(constructOK, populateOK) ==
    /\ harness = "none"
    /\ harness' = "pipeline"
    /\ vector_backend' = vector_backend
    /\ IF constructOK /\ populateOK
       THEN /\ vector_db' = "root"
            /\ denseStore' = DenseLoaded(denseStore)
            /\ denseFailed' = "no"
            /\ UNCHANGED <<simple_db, pickleDocs>>
       ELSE \* self.vector_db is assigned before load_from_json_files raises
            /\ vector_db' = IF constructOK THEN "root" ELSE "none"
            /\ simple_db' = SimpleDbLoaded(SimpleDbConstructed)
            /\ pickleDocs' = simple_db'.documents
            /\ denseFailed' = IF constructOK THEN "populate" ELSE "construct"
            /\ UNCHANGED denseStore
    /\ UNCHANGED <<jsonCorpus, lastSearch, searchCalls, otherThanSearch>>

\* FullPipelineTest.step3_test_search, one query:
\* db = self.vector_db if self.vector_db else self.simple_db
Step3Search(q) ==
    /\ harness = "pipeline"
    /\ searchCalls < MaxSearches
    /\ searchCalls' = searchCalls + 1
    /\ LET dense == vector_db # "none"
           res == IF dense THEN DenseSearch(denseStore, q, n_results)
                  ELSE SparseSearch(simple_db, q, n_results)
       IN  lastSearch' =
               [served_by |-> IF dense THEN "chroma" ELSE "tfidf",
                harness |-> "pipeline", query |-> q, filter |-> "none",
                retried |-> FALSE, raised |-> FALSE, results |-> res,
                response |-> <<>>]
    /\ UNCHANGED <<jsonCorpus, denseStore, pickleDocs, vector_db, simple_db,
                   vector_backend, harness, denseFailed, otherThanSearch>>

\* api_generate: the dispute type the query's keywords select
DisputeTypeOf(q) ==
    IF "goods" \in q THEN "consumer_protection"
    ELSE IF "contract" \in q THEN "contract_dispute"
    ELSE "none"

\* api_generate: the snippets of the response
Snippets(similar) ==
    [i \in 1..Len(similar) |->
        [text |-> similar[i].text,
         source_file |-> similar[i].metadata.source_file,
         chunk_type |-> similar[i].metadata.chunk_type]]

\* main.py api_generate(payload) with a non-empty query
ApiGenerate(q) ==
    /\ harness = "main"
    /\ searchCalls < MaxSearches
    /\ searchCalls' = searchCalls + 1
    /\ LET dispute_type == DisputeTypeOf(q)
           \* 'dispute_type' in db.search_similar.__code__.co_varnames
           filtering == vector_backend = "chroma" /\ vector_db = "filterable"
           unfiltered ==
               IF vector_backend = "chroma"
               THEN DenseSearch(denseStore, q, 5)
               ELSE SparseSearch(simple_db, q, 5)
           first == IF filtering
                    THEN FilteredSearch(denseStore, q, 5, dispute_type)
                    ELSE unfiltered
           retry == filtering /\ first = <<>> /\ dispute_type # "none"
           similar == IF retry THEN unfiltered ELSE first
       IN  lastSearch' =
               [served_by |-> vector_backend, harness |-> "main", query |-> q,
                filter |-> IF filtering THEN dispute_type ELSE "none",
                retried |-> retry, raised |-> FALSE, results |-> similar,
                response |-> [provider |-> "gemini",
                              snippets |-> Snippets(similar)]]
    /\ UNCHANGED <<jsonCorpus, denseStore, pickleDocs, vector_db, simple_db,
                   vector_backend, harness, denseFailed, otherThanSearch>>

\* the stores an earlier reindex left behind, and the JSON directory
InitSearch ==
    /\ jsonCorpus \in [Items -> [text : TermSets, dispute_type : DisputeTypes]]
    /\ denseStore \in {<<>>, DenseDocs(jsonCorpus)}
    /\ pickleDocs \in {<<>>, SparseDocs(jsonCorpus)}
    /\ vector_db = "none"
    /\ simple_db = NoDb
    /\ vector_backend = ""
    /\ harness = "none"
    /\ denseFailed = "no"
    /\ lastSearch = NoSearch
    /\ searchCalls = 0

NextSearch ==
    \/ \E kind \in {"root", "filterable"}, l, c, p \in BOOLEAN :
            Lifespan(kind, l, c, p)
    \/ \E c, p \in BOOLEAN : Step2(c, p)
    \/ \E q \in TermSets : Step3Search(q)
    \/ \E q \in TermSets : ApiGenerate(q)

InitService ==
    InitAtRest /\ CacheIdle /\ InitSearch /\ LoadIdle /\ WindowIdle /\ PoolIdle
    /\ SparseIdle /\ ExecIdle

SpecSearch == InitService /\ [][NextSearch]_vars

\* ===================================================== store population
MaxLoads == 2        \* store populations in one behaviour

\* what the JSON file of a document holds
Shapes == {"ok", "unparsable", "chunk_no_text", "chunk_no_id", "position_no_text"}

\* chunk['text'], chunk['id'] and position['text'] are subscripted
Malformed(f) ==
    docShape[f] \in {"chunk_no_text", "chunk_no_id", "position_no_text"}

\* json.load succeeds
Parsable(f) == docShape[f] # "unparsable"

NoLoad == [call |-> "none", raised |-> FALSE, added |-> {}, errors |-> {}]

\* VectorDatabase.load_from_json_files / SimpleVectorDatabase.load_from_json_files:
\* a file json.load cannot parse is logged and left out; the documents that
\* parsed go to ONE add_documents call, which raises at the first chunk or
\* position it cannot subscript, before anything is added
LoadFromJsonFiles(b) ==
    /\ asyncPos = 0
    /\ loadCalls < MaxLoads
    /\ loadCalls' = loadCalls + 1
    /\ LET documents == {f \in Items : Parsable(f)}
           keyError == \E f \in documents : Malformed(f)
       IN  /\ loadStore' = IF keyError THEN loadStore
                           ELSE loadStore \cup documents
           /\ loadLog' = [call |-> b, raised |-> keyError,
                          added |-> IF keyError THEN {} ELSE documents,
                          errors |-> Items \ documents]
    /\ UNCHANGED <<docShape, asyncPos, inFlight, awaiting, otherThanLoad>>

\* AsyncReindexer.create_vector_database up to the loop over the JSON files
StartCreateVectorDb ==
    /\ asyncPos = 0
    /\ loadCalls < MaxLoads
    /\ loadCalls' = loadCalls + 1
    /\ asyncPos' = 1
    /\ loadLog' = [NoLoad EXCEPT !.call = "async"]
    /\ UNCHANGED <<docShape, loadStore, inFlight, awaiting, otherThanLoad>>

\* a variant of the loop that hands every file to the pool before awaiting
\* any, as asyncio.gather does for the PDF tasks
SubmitLoadGather(f) ==
    /\ asyncPos \in 1..NumItems
    /\ f = ItemSeq[asyncPos]
    /\ Cardinality(inFlight) < max_workers
    /\ inFlight' = inFlight \cup {f}
    /\ awaiting' = f
    /\ asyncPos' = asyncPos + 1
    /\ UNCHANGED <<docShape, loadStore, loadLog, loadCalls, otherThanLoad>>

\* one iteration of the loop:
\* await loop.run_in_executor(self.executor, self._load_single_json, json_path)
SubmitLoad(f) ==
    /\ asyncPos \in 1..NumItems
    /\ f = ItemSeq[asyncPos]
    /\ awaiting = 0
    /\ Cardinality(inFlight) < max_workers
    /\ inFlight' = inFlight \cup {f}
    /\ awaiting' = f
    /\ asyncPos' = asyncPos + 1
    /\ UNCHANGED <<docShape, loadStore, loadLog, loadCalls, otherThanLoad>>

\* _load_single_json returns or raises in its pool thread and the awaiting
\* coroutine resumes: json.load, then add_documents([data])
LoadSingleJsonDone(f) ==
    /\ f \in inFlight
    /\ inFlight' = inFlight \ {f}
    /\ awaiting' = IF awaiting = f THEN 0 ELSE awaiting
    /\ IF Parsable(f) /\ ~Malformed(f)
       THEN /\ loadStore' = loadStore \cup {f}
            /\ loadLog' = [loadLog EXCEPT !.added = @ \cup {f}]
       ELSE /\ loadLog' = [loadLog EXCEPT !.errors = @ \cup {f}]
            /\ UNCHANGED loadStore
    /\ UNCHANGED <<docShape, asyncPos, loadCalls, otherThanLoad>>

\* the loop is over and create_vector_database returns
FinishCreateVectorDb ==
    /\ asyncPos = NumItems + 1
    /\ inFlight = {}
    /\ asyncPos' = 0
    /\ UNCHANGED <<docShape, loadStore, loadLog, loadCalls, inFlight, awaiting,
                   otherThanLoad>>

\* clear_collection / a fresh data directory between two populations
ClearStore ==
    /\ asyncPos = 0
    /\ loadStore # {}
    /\ loadStore' = {}
    /\ UNCHANGED <<docShape, loadLog, loadCalls, asyncPos, inFlight, awaiting,
                   otherThanLoad>>

InitLoad ==
    /\ docShape \in [Items -> Shapes]
    /\ loadStore = {}
    /\ loadLog = NoLoad
    /\ loadCalls = 0
    /\ asyncPos = 0
    /\ inFlight = {}
    /\ awaiting = 0

NextLoad ==
    \/ \E b \in {"dense", "sparse"} : LoadFromJsonFiles(b)
    \/ StartCreateVectorDb
    \/ \E f \in Items : SubmitLoad(f)
    \/ \E f \in Items : LoadSingleJsonDone(f)
    \/ FinishCreateVectorDb
    \/ ClearStore

InitPopulation ==
    InitAtRest /\ CacheIdle /\ SearchIdle /\ InitLoad /\ WindowIdle /\ PoolIdle
    /\ SparseIdle /\ ExecIdle

SpecLoad == InitPopulation /\ [][NextLoad]_vars

\* ============================================== large-document windows
MaxParts == 3        \* part numbers above MaxParts are not told apart
MaxPartChunks == 1   \* chunks one part of a document yields

\* the three loops that cut a large text into overlapping parts
Loops == {"gemini", "gemini_chatgpt", "chatgpt"}

\* max_chars of chunk_with_gemini and of chunk_with_chatgpt
gemini_max_chars == 30000
chatgpt_max_chars == 5000

\* len(text) of the documents chunked
DocLengths == {4000, 8600, 31000, 40000, 101000, 140000}

\* the text length above which the loop is entered
Threshold(k) ==
    CASE k = "gemini" -> gemini_max_chars
      [] k = "gemini_chatgpt" -> chatgpt_max_chars
      [] OTHER -> max_tokens

\* chunk_size and overlap of each loop
chunk_size(k) ==
    CASE k = "gemini" -> 20000
      [] k = "gemini_chatgpt" -> 3000
      [] OTHER -> 50000

overlap(k) ==
    CASE k = "gemini" -> 1000
      [] k = "gemini_chatgpt" -> 200
      [] OTHER -> 5000

\* the stages that can deliver the chunks of one part
Methods(k) ==
    CASE k = "gemini" -> {"gemini"}
      [] k = "gemini_chatgpt" -> {"chatgpt", "fallback"}
      [] OTHER -> {"chunk", "fallback"}

Min(a, b) == IF a < b THEN a ELSE b

\* ids of the n chunks of one part: the part's name, the method, the index
PartIds(k, part, method, n) ==
    {<<k, part, method, j>> : j \in 0..(n - 1)}

\* chunk_document is called with a text of the given length; a text within
\* the limit is chunked by one provider call
WindowStart(k, len, method, n) ==
    /\ wpc \in {"idle", "returned"}
    /\ method \in Methods(k)
    /\ wKind' = k
    /\ wLen' = len
    /\ wStart' = 0
    /\ part_num' = 0
    /\ duplicate_id' = FALSE
    /\ wPass' = 0
    /\ IF len > Threshold(k)
       THEN /\ wpc' = "loop"
            /\ all_chunks' = {}
       ELSE /\ wpc' = "returned"
            /\ all_chunks' = PartIds(k, 0, method, n)
    /\ UNCHANGED otherThanWindow

\* one pass of the loop body: the part text[start:end] is chunked and the
\* chunks are appended to all_chunks
WindowIterate(method, n) ==
    /\ wpc = "loop"
    /\ wStart < wLen
    /\ method \in Methods(wKind)
    /\ LET end == Min(wStart + chunk_size(wKind), wLen)
           \* the number the part is named with
           part == CASE wKind = "gemini" -> part_num
                     [] wKind = "gemini_chatgpt" -> Min(part_num + 1, MaxParts)
                     [] OTHER -> wStart \div chunk_size(wKind)
           ids == PartIds(wKind, part, method, n)
       IN  /\ all_chunks' = all_chunks \cup ids
           /\ duplicate_id' = (duplicate_id \/ ids \cap all_chunks # {})
           /\ part_num' = Min(part_num + 1, MaxParts)
           /\ wPass' = 1 - wPass
           /\ wStart' = IF wKind = "chatgpt"
                        \* for i in range(0, len(text), chunk_size - overlap)
                        THEN wStart + (chunk_size(wKind) - overlap(wKind))
                        \* start = end - overlap
                        ELSE end - overlap(wKind)
    /\ UNCHANGED <<wKind, wLen, wpc, otherThanWindow>>

\* the loop condition is false: all_chunks is returned
WindowReturn ==
    /\ wpc = "loop"
    /\ wStart >= wLen
    /\ wpc' = "returned"
    /\ UNCHANGED <<wKind, wLen, wStart, part_num, all_chunks, duplicate_id,
                   wPass, otherThanWindow>>

InitWindow ==
    /\ wKind = "none"
    /\ wLen = 0
    /\ wStart = 0
    /\ part_num = 0
    /\ all_chunks = {}
    /\ duplicate_id = FALSE
    /\ wPass = 0
    /\ wpc = "idle"

NextWindow ==
    \/ \E k \in Loops, len \in DocLengths,
          method \in {"gemini", "chatgpt", "chunk", "fallback"},
          n \in 0..MaxPartChunks : WindowStart(k, len, method, n)
    \/ \E method \in {"gemini", "chatgpt", "chunk", "fallback"},
          n \in 0..MaxPartChunks : WindowIterate(method, n)
    \/ WindowReturn

InitChunking ==
    InitAtRest /\ CacheIdle /\ SearchIdle /\ LoadIdle /\ InitWindow /\ PoolIdle
    /\ SparseIdle /\ ExecIdle

\* a provider call that is made returns, and the loop goes on
SpecWindow ==
    /\ InitChunking
    /\ [][NextWindow]_vars
    /\ WF_vars(\E method \in {"gemini", "chatgpt", "chunk", "fallback"},
                  n \in 0..MaxPartChunks : WindowIterate(method, n))
    /\ WF_vars(WindowReturn)

\* ============================================ chunk cache under the pool
NumPoolDocs == 3     \* PDF files handed to the process pool

PoolDocs == 1..NumPoolDocs

\* processes of multiprocessing.Pool: min(cpu_count(), len(pdf_files))
Workers == 1..(IF CpuCount < NumPoolDocs THEN CpuCount ELSE NumPoolDocs)

\* LegalDocumentProcessor(use_gemini_chunking=True) in the worker: a chunker
\* of its own, whose constructor reads the cache file into self.cache
WorkerConstructsChunker(w, f) ==
    /\ poolNext = f
    /\ wState[w] = "idle"
    /\ poolNext' = poolNext + 1
    /\ wState' = [wState EXCEPT ![w] = "chunking"]
    /\ wDoc' = [wDoc EXCEPT ![w] = f]
    /\ wCache' = [wCache EXCEPT ![w] = poolFile]
    /\ UNCHANGED <<poolFile, poolPuts, poolRuns, otherThanPool>>

\* GeminiChunker.chunk_document in the worker. A text found in self.cache is
\* answered from it; otherwise the chunks are put under the text's key and
\* save_cache writes the whole of self.cache over the file. The texts of
\* distinct documents have distinct keys, the document stands for its key
WorkerChunkDocument(w) ==
    /\ wState[w] = "chunking"
    /\ IF wDoc[w] \in wCache[w]
       THEN UNCHANGED <<wCache, poolFile, poolPuts>>
       ELSE LET cache == wCache[w] \cup {wDoc[w]}
            IN  /\ wCache' = [wCache EXCEPT ![w] = cache]
                /\ poolFile' = cache
                /\ poolPuts' = poolPuts \cup {wDoc[w]}
    /\ wState' = [wState EXCEPT ![w] = "idle"]
    /\ UNCHANGED <<poolNext, poolRuns, wDoc, otherThanPool>>

\* pool.imap has delivered every result and the pool is closed
PoolDone ==
    /\ poolNext = NumPoolDocs + 1
    /\ \A w \in Workers : wState[w] = "idle"

\* a later run over the same PDFs after clear_old_data: the JSON outputs are
\* gone, the cache file stays, the pool is created again
PoolRestart ==
    /\ PoolDone
    /\ poolRuns < MaxRuns
    /\ poolRuns' = poolRuns + 1
    /\ poolNext' = 1
    /\ poolPuts' = {}
    /\ UNCHANGED <<poolFile, wState, wDoc, wCache, otherThanPool>>

InitPool ==
    /\ poolFile = {}
    /\ poolNext = 1
    /\ poolRuns = 1
    /\ poolPuts = {}
    /\ wState = [w \in Workers |-> "idle"]
    /\ wDoc = [w \in Workers |-> 0]
    /\ wCache = [w \in Workers |-> {}]

NextPool ==
    \/ \E w \in Workers, f \in PoolDocs : WorkerConstructsChunker(w, f)
    \/ \E w \in Workers : WorkerChunkDocument(w)
    \/ PoolRestart

InitWorkers ==
    InitAtRest /\ CacheIdle /\ SearchIdle /\ LoadIdle /\ WindowIdle /\ InitPool
    /\ SparseIdle /\ ExecIdle

SpecPool == InitWorkers /\ [][NextPool]_vars

\* ==================================================== sparse backend object
MaxOps == 3          \* calls made on one db_path in one behaviour
MaxK == 2            \* n_results asked of a search: 0..MaxK
Filters == {"none", "legal_text", "legal_position"}
AddKinds == {"doc", "empty", "malformed"}
SaveOutcomes == {"ok", "open_fails", "dump_fails"}

\* the {text, metadata} entries add_documents builds from the JSON document
\* of item f: its chunk, then its legal position ("position_{len(texts)}")
SparseRecords(f) ==
    <<[text |-> IF f = 1 THEN {"goods", "contract"} ELSE {"contract"},
       metadata |-> [source_file |-> f, chunk_type |-> "legal_text",
                     chunk_id |-> <<"chunk", 0>>]],
      [text |-> IF f = 1 THEN {"court"} ELSE {"goods", "court"},
       metadata |-> [source_file |-> f, chunk_type |-> "legal_position",
                     chunk_id |-> <<"position", 2>>]]>>

\* the same documents as VectorDatabase.add_documents stores them
DenseRecords2(f) ==
    [i \in 1..2 |->
        [id |-> <<f, SparseRecords(f)[i].metadata.chunk_id>>,
         text |-> SparseRecords(f)[i].text,
         metadata |-> SparseRecords(f)[i].metadata]]

\* a dense collection that holds every item
DenseCollection == DenseRecords2(1) \o DenseRecords2(2)

\* __init__: no documents, embeddings None, is_fitted False
NewDb == [documents |-> <<>>, rows |-> <<>>, is_fitted |-> FALSE]

\* simple_vector_db.pkl does not exist
NoPickle == [state |-> "none", data |-> NewDb]

NoOp ==
    [op |-> "none", raised |-> FALSE, stored |-> 0, restored |-> FALSE,
     backend |-> "none", query |-> {}, k |-> 0, filter |-> "none",
     results |-> <<>>, before |-> [sdb |-> NewDb, db_file |-> NoPickle]]

\* load_database: nothing without a file; a file that cannot be unpickled is
\* logged and leaves the fresh object as it is
load_database(file) ==
    IF file.state = "ok" THEN file.data ELSE NewDb

\* _create_embeddings keeping the rows of earlier fits and appending rows for
\* the new documents only
create_embeddings_incremental(db, fit) ==
    [db EXCEPT
        !.rows = @ \o [i \in 1..(Len(db.documents) - Len(@)) |-> fit],
        !.is_fitted = TRUE]

\* _create_embeddings: fit_transform over the texts of all documents; every
\* row of the matrix carries the number of the fit that produced it
create_embeddings(db, fit) ==
    [db EXCEPT
        !.rows = [i \in 1..Len(db.documents) |-> fit],
        !.is_fitted = TRUE]

\* save_database: the pickle of the whole object; an error is logged, not
\* raised. open(.., 'wb') has truncated the file when pickle.dump fails
save_database(db, file, save) ==
    CASE save = "ok" -> [state |-> "ok", data |-> db]
      [] save = "open_fails" -> file
      [] OTHER -> [state |-> "corrupt", data |-> NewDb]

\* search_similar of the object db: similarities against the rows of the
\* matrix, filter_metadata not used
SimpleSearchSimilar(db, q, n, filter_metadata) ==
    IF ~db.is_fitted \/ db.rows = <<>> THEN <<>>
    ELSE SparseSearch(
            [documents |-> SubSeq(db.documents, 1, Len(db.rows)),
             is_fitted |-> TRUE], q, n)

\* VectorDatabase.search_similar: collection.query(where=filter_metadata)
DenseSearchSimilar(coll, q, n, filter_metadata) ==
    DenseSearch(
        SelectSeq(coll, LAMBDA r :
            filter_metadata = "none" \/ r.metadata.chunk_type = filter_metadata),
        q, n)

\* SimpleVectorDatabase(db_path): a new object on the same directory
NewSimpleVectorDatabase ==
    /\ opCalls < MaxOps
    /\ sdb' = load_database(db_file)
    /\ lastOp' = [NoOp EXCEPT !.op = "load",
                              !.restored = (db_file.state = "ok"),
                              !.before = [sdb |-> sdb, db_file |-> db_file]]
    /\ opCalls' = opCalls + 1
    /\ UNCHANGED <<db_file, fits, otherThanSparse>>

\* add_documents(documents): kind "empty" is a list without texts, kind
\* "malformed" a chunk without 'text' or 'id' (KeyError while the texts are
\* collected); fitOK and save are the outcomes of fit_transform and of the
\* write of the pickle
AddDocuments(kind, f, fitOK, save) ==
    /\ opCalls < MaxOps
    /\ LET grown == [sdb EXCEPT !.documents = @ \o SparseRecords(f)]
           op == [NoOp EXCEPT !.op = "add",
                              !.before = [sdb |-> sdb, db_file |-> db_file]]
       IN  CASE kind = "empty" ->
                    /\ lastOp' = op
                    /\ UNCHANGED <<sdb, db_file, fits>>
             [] kind = "malformed" ->
                    /\ lastOp' = [op EXCEPT !.raised = TRUE]
                    /\ UNCHANGED <<sdb, db_file, fits>>
             [] kind = "doc" /\ ~fitOK ->
                    /\ sdb' = grown
                    /\ lastOp' = [op EXCEPT !.raised = TRUE]
                    /\ UNCHANGED <<db_file, fits>>
             [] OTHER ->
                    /\ sdb' = create_embeddings(grown, fits + 1)
                    /\ fits' = fits + 1
                    /\ db_file' = save_database(sdb', db_file, save)
                    /\ lastOp' = [op EXCEPT !.stored = Len(SparseRecords(f))]
    /\ opCalls' = opCalls + 1
    /\ UNCHANGED otherThanSparse

\* search_similar(query, n_results, filter_metadata) on the sparse object
SearchSimilar(q, k, filter_metadata) ==
    /\ opCalls < MaxOps
    /\ lastOp' = [NoOp EXCEPT
            !.op = "search", !.backend = "sparse", !.query = q, !.k = k,
            !.filter = filter_metadata,
            !.results = SimpleSearchSimilar(sdb, q, k, filter_metadata),
            !.before = [sdb |-> sdb, db_file |-> db_file]]
    /\ opCalls' = opCalls + 1
    /\ UNCHANGED <<sdb, db_file, fits, otherThanSparse>>

\* search_similar(query, n_results, filter_metadata) on the dense backend
VectorDatabaseSearch(q, k, filter_metadata) ==
    /\ opCalls < MaxOps
    /\ lastOp' = [NoOp EXCEPT
            !.op = "search", !.backend = "dense", !.query = q, !.k = k,
            !.filter = filter_metadata,
            !.results = DenseSearchSimilar(DenseCollection, q, k, filter_metadata),
            !.before = [sdb |-> sdb, db_file |-> db_file]]
    /\ opCalls' = opCalls + 1
    /\ UNCHANGED <<sdb, db_file, fits, otherThanSparse>>

InitSparse ==
    /\ sdb = NewDb
    /\ db_file = NoPickle
    /\ fits = 0
    /\ lastOp = NoOp
    /\ opCalls = 0

NextSparse ==
    \/ NewSimpleVectorDatabase
    \/ \E kind \in AddKinds, f \in Items, fitOK \in BOOLEAN,
          save \in SaveOutcomes : AddDocuments(kind, f, fitOK, save)
    \/ \E q \in TermSets, k \in 0..MaxK, fm \in Filters : SearchSimilar(q, k, fm)
    \/ \E q \in TermSets, k \in 1..MaxK, fm \in Filters :
            VectorDatabaseSearch(q, k, fm)

InitBackendObject ==
    /\ InitAtRest /\ CacheIdle /\ SearchIdle /\ LoadIdle /\ WindowIdle
    /\ PoolIdle /\ InitSparse /\ ExecIdle

SpecSparse == InitBackendObject /\ [][NextSparse]_vars

\* ============================================= cooperative pool, one run
NumTasks == 3        \* PDF files discovered by get_pdf_files
Tasks == 1..NumTasks
TaskFinal == {"skipped", "processed", "error"}

\* results of the item f that as_completed has yielded
ResultsOf(f) == {i \in 1..Len(taskResults) : taskResults[i].file = f}

\* process_single_pdf up to the await: an up-to-date item returns 'skipped',
\* any other item is handed to the executor
TaskRun(f, upToDate) ==
    /\ xpc = "gathering"
    /\ taskState[f] = "discovered"
    /\ IF upToDate
       THEN /\ taskState' = [taskState EXCEPT ![f] = "skipped"]
            /\ taskResults' = Append(taskResults, [file |-> f, status |-> "skipped"])
       ELSE /\ taskState' = [taskState EXCEPT ![f] = "queued"]
            /\ UNCHANGED taskResults
    /\ UNCHANGED <<xpc, otherThanExec>>

\* an executor without a bound on its threads: every queued call starts
ExecutorStartUnbounded(f) ==
    /\ xpc = "gathering"
    /\ taskState[f] = "queued"
    /\ taskState' = [taskState EXCEPT ![f] = "processing"]
    /\ UNCHANGED <<xpc, taskResults, otherThanExec>>

\* ThreadPoolExecutor(max_workers): a queued call starts when a thread is free
ExecutorStart(f) ==
    /\ xpc = "gathering"
    /\ taskState[f] = "queued"
    /\ Cardinality({g \in Tasks : taskState[g] = "processing"}) < max_workers
    /\ taskState' = [taskState EXCEPT ![f] = "processing"]
    /\ UNCHANGED <<xpc, taskResults, otherThanExec>>

\* _process_pdf_sync returned or raised: process_single_pdf returns its
\* result dictionary and as_completed yields it
ExecutorFinish(f, raises) ==
    /\ xpc = "gathering"
    /\ taskState[f] = "processing"
    /\ LET status == IF raises THEN "error" ELSE "processed"
       IN  /\ taskState' = [taskState EXCEPT ![f] = status]
           /\ taskResults' = Append(taskResults, [file |-> f, status |-> status])
    /\ UNCHANGED <<xpc, otherThanExec>>

\* as_completed is exhausted: the statistics are counted and returned
GatherReturn ==
    /\ xpc = "gathering"
    /\ Len(taskResults) = NumTasks
    /\ xpc' = "returned"
    /\ UNCHANGED <<taskState, taskResults, otherThanExec>>

InitExec ==
    /\ taskState = [f \in Tasks |-> "discovered"]
    /\ taskResults = <<>>
    /\ xpc = "gathering"

NextExec ==
    \/ \E f \in Tasks, upToDate \in BOOLEAN : TaskRun(f, upToDate)
    \/ \E f \in Tasks : ExecutorStart(f)
    \/ \E f \in Tasks, raises \in BOOLEAN : ExecutorFinish(f, raises)
    \/ GatherReturn

InitGather ==
    /\ InitAtRest /\ CacheIdle /\ SearchIdle /\ LoadIdle /\ WindowIdle
    /\ PoolIdle /\ SparseIdle /\ InitExec

\* the event loop runs every task, the executor starts a queued call when a
\* thread is free, and every extraction call returns or raises
SpecExec ==
    /\ InitGather
    /\ [][NextExec]_vars
    /\ \A f \in Tasks :
        /\ WF_vars(\E upToDate \in BOOLEAN : TaskRun(f, upToDate))
        /\ WF_vars(ExecutorStart(f))
        /\ WF_vars(\E raises \in BOOLEAN : ExecutorFinish(f, raises))
    /\ WF_vars(GatherReturn)

\* ================================================================ claims
\* records one readable PDF contributes to the Index Store
RecsPerDoc == NumChunks + NumPositions

\* the true corpus size: the records of every readable PDF
TrueCorpusSize == RecsPerDoc * Cardinality({f \in Items : pdfKind[f] = "good"})

\* the extraction phase of the current run has returned
Returned == pc \in {"load", "done"}

\* f is recorded as ingested: a later run without force skips it
Ingested(f) == UpToDate(f, "ok")

\* every record of f is persisted in a backend
Persisted(f) ==
    \/ \A id \in RecIds : id[1] = f => chroma[id] # 0
    \/ Cardinality({i \in 1..Len(tfidfFile) : tfidfFile[i].source_file = f})
            >= RecsPerDoc

\* what the populated backend holds under the id of record r
StoredVersions(r) ==
    IF backend = "tfidf"
    THEN [i \in {j \in 1..Len(tfidfDocs) :
                    /\ tfidfDocs[j].source_file = r.id[1]
                    /\ tfidfDocs[j].chunk_id = <<r.id[2], r.id[3]>>}
            |-> tfidfDocs[i].ver]
    ELSE [i \in {j \in {1} : chroma[r.id] # 0} |-> chroma[r.id]]

\* C1: a reindex run twice over the same corpus, with no source change and
\* without force, reports skipped == total and processed == 0 the second
\* time, and leaves the count of the Index Store as the first run left it.
C1_ReindexIdempotent ==
    \A i \in 2..Len(hist) :
        (/\ hist[i].entry = hist[i - 1].entry
         /\ hist[i].cleared = hist[i - 1].cleared
         /\ ~hist[i].force /\ ~hist[i - 1].force
         /\ hist[i].afterCrash = "none"
         /\ hist[i].pdfVer = hist[i - 1].pdfVer)
        => /\ hist[i].summary.skipped = hist[i].summary.total
           /\ hist[i].summary.processed = 0
           /\ hist[i].count = hist[i - 1].count

\* C2: an id is recorded as ingested only after all of its records are
\* persisted in the Index Store: no state has an ingested id with records
\* missing from the store.
C2_IngestedOnlyAfterPersisted ==
    \A f \in Items : Ingested(f) => Persisted(f)

\* C3: after an interrupted run, the next run reprocesses every unfinished
\* item, and when it has completed the count of the store is the true size
\* of the corpus (nothing missing, nothing duplicated).
C3_CrashConsistency ==
    \A i \in 1..Len(hist) :
        (/\ hist[i].afterCrash = "seq"
         /\ hist[i].entry = "seq"
         /\ ~hist[i].force
         /\ hist[i].outcome = "ok")
        => hist[i].count = TrueCorpusSize

\* C4: re-adding a document whose ids are already stored overwrites the
\* stored records with the new content: after add_documents has returned,
\* each id of the call is stored once, with the content of the call.
C4_OverwriteOnReingest ==
    (pc = "done" /\ outcome = "ok")
        => \A r \in lastAdd :
              /\ Cardinality(DOMAIN StoredVersions(r)) = 1
              /\ \A i \in DOMAIN StoredVersions(r) : StoredVersions(r)[i] = r.ver

\* C5: an exception raised while one item is processed becomes that item's
\* error result; every other item is still handled and the run returns its
\* summary, in the sequential loop, the cooperative pool and the process pool.
C5_FailureIsolation ==
    (Returned \/ (pc = "idle" /\ entry # "none" /\ crashed = "none"))
        => \A f \in Items :
              /\ st[f] \in Final
              /\ (pdfKind[f] = "raises" /\ st[f] # "skipped") => st[f] = "error"
              /\ pdfKind[f] = "good" => st[f] \in {"processed", "skipped"}

\* C5 witness: the first file raised, the second one was processed and the
\* sequential run returned its summary
C5_Witness ==
    /\ entry = "seq"
    /\ pc = "load"
    /\ NumItems >= 2
    /\ pdfKind[1] = "raises" /\ st[1] = "error"
    /\ st[2] = "processed"
    /\ summary.errors = 1 /\ summary.processed >= 1

\* C6: every discovered item is counted in exactly one of processed,
\* skipped and errors, so the three add up to total, and processed_files
\* lists exactly the items counted as processed.
C6_SummaryAccounting ==
    Returned
        => /\ summary.processed + summary.skipped + summary.errors = NumItems
           /\ summary.total = NumItems
           /\ Len(summary.processed_files) = summary.processed
           /\ {summary.processed_files[i] : i \in 1..Len(summary.processed_files)}
                = {f \in Items : st[f] = "processed"}

\* C7: an item is skipped iff it is recorded as ingested and the run is not
\* forced; otherwise it is processed and ends in exactly one of Processed
\* and Error; only Processed items get recorded as ingested.
C7_ItemStateMachine ==
    [][\A f \in Items :
        /\ (pc = "extract" /\ st[f] = "discovered" /\ st'[f] # "discovered")
            => /\ st'[f] = "skipped" <=> (~force /\ Ingested(f))
               /\ st'[f] \in {"skipped", "queued", "processing", "saving",
                              "processed", "error"}
        /\ (pc = "extract" /\ pc' = "load") => st[f] \in {"skipped", "processed", "error"}
        /\ (pc = "extract" /\ json'[f] # json[f]) => st'[f] \in {"saving", "processed"}
      ]_vars

\* C8: while no cache file I/O has failed, a text whose chunks were put is a
\* hit that returns exactly those chunks, in the instance that put them and
\* in every instance created afterwards; a text that was never put, such as
\* one that differs from a put text in one character, is a miss.
C8_CacheRoundTrip ==
    \A p \in Providers :
        ~ioLog[p].lost =>
            /\ \A t \in Texts :
                  IF putLog[p][t] # NoPut
                  THEN /\ get_cache_key(t) \in DOMAIN cacheMem[p]
                       /\ cacheMem[p][get_cache_key(t)] = putLog[p][t].chunks
                  ELSE get_cache_key(t) \notin DOMAIN cacheMem[p]
            /\ (lastCall.op = "chunk" /\ lastCall.provider = p /\ lastCall.hit)
                  => lastCall.result = putLog[p][lastCall.text].chunks

\* C8 witness: a hit in an instance created after the put, under another
\* source file, while a text one character apart has never been put
C8_Witness ==
    /\ lastCall.op = "chunk" /\ lastCall.hit
    /\ ~ioLog[lastCall.provider].lost
    /\ putLog[lastCall.provider][lastCall.text].epoch
            < ioLog[lastCall.provider].restarts
    /\ lastCall.result.source_file # lastCall.source_file
    /\ \E u \in Texts :
          /\ OneCharApart(lastCall.text, u)
          /\ putLog[lastCall.provider][u] = NoPut

\* C9: at most one API chunking is performed per distinct text, across both
\* providers, all source files and all restarts (cache I/O permitting).
C9_AtMostOneComputation ==
    (\A p \in Providers : ~ioLog[p].lost /\ ~ioLog[p].unsaved)
        => \A t \in Texts : computations[t] <= 1

\* C10: a failure to read or write the cache file never reaches the caller:
\* load_cache then yields an empty cache, and chunk_document returns the
\* chunks it computed although save_cache could not write them.
C10_CacheIoNonFatal ==
    /\ ~lastCall.raised
    /\ (lastCall.op = "restart" /\ lastCall.io # "ok")
          => cacheMem[lastCall.provider] = EmptyCache
    /\ (lastCall.op = "chunk" /\ lastCall.cached)
          => /\ lastCall.result = lastCall.computed
             /\ cacheMem[lastCall.provider][get_cache_key(lastCall.text)]
                    = lastCall.computed

\* C10 witness: the API delivered chunks, the write of the cache file failed
\* and the call returned the chunks
C10_Witness ==
    /\ lastCall.op = "chunk" /\ lastCall.cached
    /\ lastCall.io # "ok"
    /\ lastCall.computed.chunking_method \in {"gemini", "chatgpt"}
    /\ lastCall.result = lastCall.computed

\* C11 (backend contract parity): on the dense and on the sparse backend alike,
\* every element a search returns has the fields text, metadata, score and id,
\* and the elements are ordered by non-increasing score.
C11_BackendContractParity ==
    \A i \in 1..Len(lastSearch.results) :
        /\ {"text", "metadata", "score", "id"} \subseteq
               DOMAIN lastSearch.results[i]
        /\ i > 1 => lastSearch.results[i - 1].score >= lastSearch.results[i].score

\* C12 (backend fallback): the dense backend is attempted first; once its
\* construction or its population has failed, every later search is served by
\* the sparse backend, and a query that shares a word with a document the
\* sparse backend ingested returns a non-empty result.
C12_BackendFallback ==
    (denseFailed # "no" /\ lastSearch.served_by # "none") =>
        /\ lastSearch.served_by = "tfidf"
        /\ (\E i \in 1..Len(simple_db.documents) :
                simple_db.documents[i].text \cap lastSearch.query # {})
            => lastSearch.results # <<>>

\* C13 (filtered-search fallback tagging): when the filtered search returned
\* zero results and the facade retried without the filter, what it returns
\* carries a tag that tells the caller the results are fallback-unfiltered.
C13_FallbackTagged ==
    (lastSearch.retried /\ lastSearch.results # <<>>) =>
        \/ "fallback" \in DOMAIN lastSearch.response
        \/ \A i \in 1..Len(lastSearch.response.snippets) :
               "fallback" \in DOMAIN lastSearch.response.snippets[i]

\* records durably persisted in the store the run populated
PersistedCount ==
    IF backend = "tfidf" THEN Len(tfidfFile)
    ELSE Cardinality({id \in RecIds : chroma[id] # 0})

\* C14 (count reflects persisted state): the record count the backend reports
\* equals the number of records durably persisted in its store; records held
\* only in memory after a failed save are not counted.
C14_CountIsDurable ==
    (pc = "done" /\ outcome = "ok") => StoreCount = PersistedCount

\* C15 (corrupt ingestion record recovery): an ingestion record that is
\* truncated or unparsable, or whose modification time cannot be read, counts
\* as "not ingested": a non-forced run skips a document only when its record
\* is intact, and reprocesses it otherwise.
C15_CorruptRecordReprocessed ==
    [][\A f \in Items :
            (st[f] # "skipped" /\ st'[f] = "skipped") => json[f].state = "ok"]_vars

\* C16 (malformed input isolated per document): in one load_from_json_files
\* call over a set of documents of which one has a chunk or position without
\* text or id, that document is recorded as malformed and every well-formed
\* document of the same call is still added.
C16_MalformedIsolated ==
    (loadLog.call \in {"dense", "sparse"} /\ \E f \in Items : Malformed(f)) =>
        /\ \A f \in Items : docShape[f] = "ok" => f \in loadLog.added
        /\ \A f \in Items : Malformed(f) => f \in loadLog.errors

C17_ChunkIdsDistinct ==
    wpc = "returned" => ~duplicate_id

\* C19 (chunking terminates): every chunk_document call returns, for every
\* input, provided each provider call it makes returns; the window loops over
\* a large text come to an end.
C19_ChunkingTerminates ==
    (wpc = "loop") ~> (wpc = "returned")

\* C20 (chunk cache effective under the process pool): after the workers of
\* the pool, each with a chunker of its own, have put entries for distinct
\* documents, a fresh chunker finds every one of them in the durable cache
\* file; no put is lost to another worker's whole-file write.
C20_PoolCacheKeepsPuts ==
    PoolDone => poolPuts \subseteq poolFile

\* the chunks and legal positions the current run reports for its processed
\* items: process_single_pdf reads them from the extraction's processing_info,
\* which an empty extraction does not have
ReportedRecords ==
    RecsPerDoc * Cardinality({i \in 1..Len(results) :
                                /\ results[i].status = "processed"
                                /\ pdfKind[results[i].file] = "good"})

\* C21 (full cooperative reindex populates the store): after run_full_reindex
\* completes without raising, the record count of the Index Store equals the
\* sum of the chunks and legal positions of the items reported processed.
C21_AsyncReindexPopulatesStore ==
    (pc = "done" /\ entry = "async" /\ cleared /\ outcome = "ok")
        => ChromaCount = ReportedRecords

\* C22 (processed means persisted): on the sequential and the process-pool
\* path an item becomes counted as processed only when its JSON output has
\* actually been written; a failed save_json does not count the item.
C22_ProcessedMeansPersisted ==
    [][\A f \in Items :
         (/\ entry \in {"seq", "mp"}
          /\ st[f] # "processed"
          /\ st'[f] = "processed")
            => (json'[f].state = "ok" /\ json'[f].ver = pdfVer[f])]_vars

\* C23 (the three orchestration paths agree): two finished runs made by
\* different strategies give every item they both had to extract (skipped by
\* neither) the same status, whatever its extraction outcome; in particular an
\* item whose extraction yields no data.
C23_PathsAgreeOnStatus ==
    \A i, j \in 1..Len(hist) :
        hist[i].entry # hist[j].entry
            => \A f \in Items :
                   (hist[i].st[f] # "skipped" /\ hist[j].st[f] # "skipped")
                        => hist[i].st[f] = hist[j].st[f]

\* C24 (filters are honoured on every backend): for a search called with a
\* metadata filter, dense or sparse, every returned result has metadata equal
\* to the filter on the filtered key.
C24_FilterHonoured ==
    (lastOp.op = "search" /\ lastOp.filter # "none")
        => \A i \in 1..Len(lastOp.results) :
               lastOp.results[i].metadata.chunk_type = lastOp.filter

\* C25 (a failed add leaves the sparse backend unchanged): when
\* SimpleVectorDatabase.add_documents raises, the in-memory documents, the
\* embedding matrix and the persisted file are the same as before the call.
C25_FailedAddIsAtomic ==
    (lastOp.op = "add" /\ lastOp.raised)
        => /\ sdb.documents = lastOp.before.sdb.documents
           /\ sdb.rows = lastOp.before.sdb.rows
           /\ db_file = lastOp.before.db_file

\* the matrix has one row per stored document, all produced by one fit
SingleFit ==
    /\ sdb.is_fitted
    /\ Len(sdb.rows) = Len(sdb.documents)
    /\ \A i, j \in 1..Len(sdb.rows) : sdb.rows[i] = sdb.rows[j]

\* C26 as stated (sparse backend full rebuild): after every add_documents
\* that returns normally, and after load_database, is_fitted is true and the
\* embedding matrix has exactly one row per stored document, all from a
\* single fit.
C26_Original ==
    ((lastOp.op = "add" /\ ~lastOp.raised) \/ lastOp.op = "load") => SingleFit

\* C26 (sparse backend full rebuild), amended: after an add_documents that
\* returned having stored documents, is_fitted is true and the matrix has one
\* row per stored document, every row produced by the latest fit over the
\* whole accumulated corpus; after a load_database that restored a saved
\* file, is_fitted is true and the matrix has one row per document, all from
\* one fit.
C26_FullRebuild ==
    /\ (lastOp.op = "add" /\ ~lastOp.raised /\ lastOp.stored > 0)
            => (SingleFit /\ \A i \in 1..Len(sdb.rows) : sdb.rows[i] = fits)
    /\ (lastOp.op = "load" /\ lastOp.restored) => SingleFit

\* C26 witness: a second successful add_documents has grown a corpus that an
\* earlier fit had already vectorized
C26_Witness ==
    /\ lastOp.op = "add" /\ ~lastOp.raised /\ lastOp.stored > 0
    /\ lastOp.before.sdb.is_fitted
    /\ Len(sdb.documents) > lastOp.stored
    /\ fits >= 2

\* C27 (bounded, positive sparse results): search_similar(query, n_results=k)
\* of the sparse backend returns at most k results for every k >= 0, each of
\* similarity greater than 0, and nothing when the backend is not fitted.
C27_SparseSearchBounded ==
    (lastOp.op = "search" /\ lastOp.backend = "sparse")
        => /\ Len(lastOp.results) <= lastOp.k
           /\ \A i \in 1..Len(lastOp.results) : lastOp.results[i].similarity > 0
           /\ ~sdb.is_fitted => lastOp.results = <<>>

\* the answers of the object db to every query
AllAnswers(db) ==
    [q \in TermSets |-> [k \in 0..MaxK |-> SimpleSearchSimilar(db, q, k, "none")]]

\* C30 (sparse save/restore round trip): a new SimpleVectorDatabase constructed
\* on the same db_path right after an add_documents that returned having
\* stored documents holds the same documents in the same order, the same
\* fitted state, and answers every query as the saving object did.
C30_SaveRestoreRoundTrip ==
    [][(/\ lastOp.op = "add" /\ ~lastOp.raised /\ lastOp.stored > 0
        /\ lastOp'.op = "load")
            => /\ sdb'.documents = sdb.documents
               /\ sdb'.is_fitted = sdb.is_fitted
               /\ AllAnswers(sdb') = AllAnswers(sdb)]_vars

\* C28 (bounded cooperative pool): at any time at most max_workers items are
\* executing the blocking extraction call and every other discovered item is
\* waiting or finished with at most one result; and, every extraction call
\* returning, each discovered item eventually has yielded exactly one result.
C28_BoundedPoolYieldsAll ==
    /\ [](/\ Cardinality({f \in Tasks : taskState[f] = "processing"}) <= max_workers
          /\ \A f \in Tasks :
                /\ taskState[f] \in {"discovered", "queued", "processing"} \cup TaskFinal
                /\ Cardinality(ResultsOf(f)) =
                        (IF taskState[f] \in TaskFinal THEN 1 ELSE 0))
    /\ \A f \in Tasks :
            (taskState[f] = "discovered") ~> (Cardinality(ResultsOf(f)) = 1)

\* C28 witness: max_workers extraction calls are running and a further item
\* waits in the executor's queue
C28_Witness ==
    /\ Cardinality({f \in Tasks : taskState[f] = "processing"}) = max_workers
    /\ \E f \in Tasks : taskState[f] = "queued"

\* C29 (returned chunks belong to the requested source): every chunk that
\* GeminiChunker.chunk_document(text, source_file) returns, computed or taken
\* from the cache, carries source_file equal to the argument (and so an id
\* that starts with it).
C29_ChunksCarryRequestedSource ==
    (lastCall.op = "chunk" /\ lastCall.provider = "gemini" /\ ~lastCall.raised)
        => lastCall.result.source_file = lastCall.source_file

====
